---- MODULE Spec2Model ----
(***************************************************************************)
(* A model of the front end of fcc: the parser's token and error           *)
(* primitives (src/src/parser-helpers.c), the statement walk of the        *)
(* analyzer (src/src/analyzer.c) and its expression rules                  *)
(* (src/unnamed/part_000, analyzer-value.c), and the record layout of the  *)
(* emitter (src/unnamed/part_000, emitter-decl.c).                         *)
(*                                                                         *)
(* The lexer, the parser's grammar and the type algebra (type.c) are not   *)
(* among the sources; they are modelled from the design document and are   *)
(* marked so in MODEL_MAP.json.                                            *)
(***************************************************************************)
EXTENDS Integers, Sequences, FiniteSets, TLC

VARIABLES
    phase,   \* "idle" | "parsing" | "analyzing" | "analyzed" | "crashed"
             \* | "emitting" | "emitted"
    lexer,   \* the lexer: [tokens, pos]
    pctx,    \* parserCtx: [location, errors]
    pout,    \* the diagnostic lines the parser printed
    keys,    \* characters waiting on standard input
    pcall,   \* the token or error primitive in progress or last completed
    tree,    \* the module AST handed to analyzer()
    actx,    \* analyzerCtx: [errors, warnings, returnType]
    out,     \* the diagnostic lines the analyzer printed
    apc,     \* the position of the analyzer's walk
    decl     \* the record declaration the emitter lays out: [tag, ctx, symbol]

vars == <<phase, lexer, pctx, pout, keys, pcall, tree, actx, out, apc, decl>>
pvars == <<lexer, pctx, pout, keys, pcall>>
avars == <<tree, actx, out, apc>>

(***************************************************************************)
(* Bounds of the model.                                                    *)
(***************************************************************************)
MaxTokens == 2      \* tokens of a stream before its end of file
MaxErrors == 2      \* parser diagnostics per run
MaxKeys == 1        \* characters buffered on standard input
MaxArgs == 2        \* arguments of a call, elements of an array literal
MaxTop == 2         \* top-level nodes of a module of several nodes
MaxFields == 3      \* fields of a record
MaxFieldSize == 9   \* bytes of a field, one more than the widest word

Min(a, b) == IF a < b THEN a ELSE b

(***************************************************************************)
(* THE LEXER AND THE PARSER'S PRIMITIVES                                   *)
(***************************************************************************)

\* The token vocabulary: class and buffered text.
Vocabulary ==
    { [class |-> "tokenIdent", buffer |-> "x"],
      [class |-> "tokenInt",   buffer |-> "1"] }

tokenClasses == {"tokenOther", "tokenEOF", "tokenIdent", "tokenInt"}

\* The texts the parser asks for.
MatchStrings == {"x", ";"}

EOFToken == [class |-> "tokenEOF", buffer |-> ""]

\* The streams the lexer may be opened on: every token sequence of at most
\* MaxTokens tokens.
Streams == UNION { [1..n -> Vocabulary] : n \in 0..MaxTokens }

\* The token under the lexer: the stream's token, or end of file past it.
lexerToken(lx) ==
    IF lx.pos <= Len(lx.tokens) THEN lx.tokens[lx.pos] ELSE EOFToken

\* stream->line and stream->lineChar once the lexer stands on token pos:
\* every token lies on line 1, at its own column.
streamLocation(lx) == [line |-> 1, lineChar |-> lx.pos]

\* lexerNext: read one token; at end of file the lexer stays there.
lexerNext(lx) ==
    [lx EXCEPT !.pos = IF lx.pos <= Len(lx.tokens) THEN lx.pos + 1 ELSE lx.pos]

NoLexer == [tokens |-> <<>>, pos |-> 0]
NoParserCtx == [location |-> [line |-> 0, lineChar |-> 0], errors |-> 0]
Ready(op) == [op |-> op, at |-> "ready", resume |-> "none",
              pos0 |-> 0, errors0 |-> 0, lines0 |-> 0, matched |-> FALSE]
NoCall == Ready("none")

\* The record of a primitive that has returned: the operation, whether its
\* token matched, and the lexer position and counters it was entered with.
Returned(op, matched) ==
    [op |-> op, at |-> "ready", resume |-> "none", pos0 |-> lexer.pos,
     errors0 |-> pctx.errors, lines0 |-> Len(pout), matched |-> matched]

\* The record of a primitive blocked in error()'s getchar.
Blocked(op, resume) ==
    [op |-> op, at |-> "getchar", resume |-> resume, pos0 |-> lexer.pos,
     errors0 |-> pctx.errors, lines0 |-> Len(pout), matched |-> FALSE]

\* parserInit: the lexer is opened on the stream and stands on its first
\* token, the location mirrors it, and no error has been counted.
parserInit(s) ==
    /\ lexer' = [tokens |-> s, pos |-> 1]
    /\ pctx' = [location |-> streamLocation([tokens |-> s, pos |-> 1]),
                errors |-> 0]

\* parser(): a parser run starts.
parser ==
    /\ phase = "idle"
    /\ \E s \in Streams : parserInit(s)
    /\ phase' = "parsing"
    /\ pout' = <<>>
    /\ pcall' = NoCall
    /\ UNCHANGED <<keys, avars, decl>>

\* error(): print one line at the context's location and count it.
\* (The getchar that follows is the caller's next step.)
error(c, o, kind) ==
    [ctx |-> [c EXCEPT !.errors = @ + 1],
     out |-> Append(o, [kind |-> kind, location |-> c.location])]

\* tokenNext: advance the lexer and mirror the stream's position.
tokenNext(lx, c) ==
    [lexer |-> lexerNext(lx),
     ctx |-> [c EXCEPT !.location = streamLocation(lexerNext(lx))]]

\* A tokenMatch that traces the match and forgets tokenNext.
tokenMatchStay(lx, c) == [lexer |-> lx, ctx |-> c]

\* tokenMatch: (trace the match and) take the next token.
tokenMatch(lx, c) == tokenNext(lx, c)

tokenIs(lx, Match) == lexerToken(lx).buffer = Match

CanRun == phase = "parsing" /\ pcall.at = "ready"
CanErr == CanRun /\ pctx.errors < MaxErrors

\* An error primitive: error(), which then waits in getchar.
Raise(op, kind, resume) ==
    /\ pctx' = error(pctx, pout, kind).ctx
    /\ pout' = error(pctx, pout, kind).out
    /\ pcall' = Blocked(op, resume)
    /\ UNCHANGED <<phase, lexer, keys, avars, decl>>

\* A primitive that takes the token under the lexer.
Take(op, step) ==
    /\ lexer' = step.lexer
    /\ pctx' = step.ctx
    /\ pcall' = Returned(op, TRUE)
    /\ UNCHANGED <<phase, pout, keys, avars, decl>>

tokenNextOp ==
    /\ CanRun
    /\ Take("tokenNext", tokenNext(lexer, pctx))

tokenMatchOp ==
    /\ CanRun
    /\ Take("tokenMatch", tokenMatch(lexer, pctx))

tokenDupMatch ==
    /\ CanRun
    /\ Take("tokenDupMatch", tokenMatch(lexer, pctx))

\* tokenMatchToken, entered by op (itself, tokenMatchInt or tokenMatchIdent).
MatchToken(op, Match) ==
    IF lexerToken(lexer).class = Match
    THEN Take(op, tokenMatch(lexer, pctx))
    ELSE CanErr /\ Raise(op, "expected", "lexerNext")

tokenMatchToken ==
    /\ CanRun
    /\ \E Match \in tokenClasses : MatchToken("tokenMatchToken", Match)

tokenMatchStr ==
    /\ CanRun
    /\ \E Match \in MatchStrings :
        IF tokenIs(lexer, Match)
        THEN Take("tokenMatchStr", tokenMatch(lexer, pctx))
        ELSE CanErr /\ Raise("tokenMatchStr", "expected", "lexerNext")

tokenTryMatchStr ==
    /\ CanRun
    /\ \E Match \in MatchStrings :
        IF tokenIs(lexer, Match)
        THEN Take("tokenTryMatchStr", tokenMatch(lexer, pctx))
        ELSE /\ pcall' = Returned("tokenTryMatchStr", FALSE)
             /\ UNCHANGED <<phase, lexer, pctx, pout, keys, avars, decl>>

tokenMatchInt ==
    /\ CanRun
    /\ MatchToken("tokenMatchInt", "tokenInt")

tokenMatchIdent ==
    /\ CanRun
    /\ MatchToken("tokenMatchIdent", "tokenIdent")

errorExpected ==
    /\ CanErr
    /\ Raise("errorExpected", "expected", "none")

errorUndefSym ==
    /\ CanErr
    /\ Raise("errorUndefSym", "undefinedSymbol", "none")

errorIllegalBreak ==
    /\ CanErr
    /\ Raise("errorIllegalBreak", "illegalBreak", "none")

errorIdentOutsideDecl ==
    /\ CanErr
    /\ Raise("errorIdentOutsideDecl", "identOutsideDecl", "none")

errorDuplicateSym ==
    /\ CanErr
    /\ Raise("errorDuplicateSym", "duplicateSymbol", "none")

\* What a match primitive does once error() has returned: lexerNext on the
\* lexer alone.
afterError(resume, lx) == IF resume = "lexerNext" THEN lexerNext(lx) ELSE lx

\* getchar returns with a character of standard input, and the primitive
\* that called error() runs to its end.
getcharReturn ==
    /\ phase = "parsing"
    /\ pcall.at = "getchar"
    /\ keys > 0
    /\ keys' = keys - 1
    /\ lexer' = afterError(pcall.resume, lexer)
    /\ pcall' = [pcall EXCEPT !.at = "ready"]
    /\ UNCHANGED <<phase, pctx, pout, avars, decl>>

\* The user presses a key while the parser waits for one.
keypress ==
    /\ phase = "parsing"
    /\ pcall.at = "getchar"
    /\ keys < MaxKeys
    /\ keys' = keys + 1
    /\ UNCHANGED <<phase, lexer, pctx, pout, pcall, avars, decl>>

ParserNext ==
    \/ parser
    \/ tokenNextOp
    \/ tokenMatchOp
    \/ tokenDupMatch
    \/ tokenMatchToken
    \/ tokenMatchStr
    \/ tokenTryMatchStr
    \/ tokenMatchInt
    \/ tokenMatchIdent
    \/ errorExpected
    \/ errorUndefSym
    \/ errorIllegalBreak
    \/ errorIdentOutsideDecl
    \/ errorDuplicateSym
    \/ getcharReturn
    \/ keypress

(***************************************************************************)
(* TYPES AND SYMBOLS                                                       *)
(***************************************************************************)

NullNode == [class |-> "null"]
NullType == [tag |-> "null"]
NullSym == ""

typeCreateInvalid == [tag |-> "Invalid"]
typeCreateBasic(sym) == [tag |-> "Basic", basic |-> sym]
typeCreatePtr(base) == [tag |-> "Ptr", base |-> base]
typeCreateArray(base, n) == [tag |-> "Array", base |-> base, array |-> n]
typeCreateFunction(ret, n) ==
    [tag |-> "Function", returnType |-> ret, params |-> n]

IntT == typeCreateBasic("int")
BoolT == typeCreateBasic("bool")
CharT == typeCreateBasic("char")
VoidT == typeCreateBasic("void")
StructS == typeCreateBasic("S")

\* A symbol: identifier, kind, data type and the children it owns, in order.
Sym(ident, class, dt, children) ==
    [ident |-> ident, class |-> class, dt |-> dt, children |-> children]

\* The symbol tree the parser has built for
\*   int x; int *p; struct S { int a; }; struct S s, *sp;
\*   int f(int a, int *b); int g(); void v(); int (*fp)(int a);
\*   int h(void) {..}  void w(void) {..}  int *q(void) {..}
\* over the built-in types. Each symbol is named by its path.
Symbols ==
    "int"  :> Sym("int", "symType", NullType, <<>>) @@
    "bool" :> Sym("bool", "symType", NullType, <<>>) @@
    "char" :> Sym("char", "symType", NullType, <<>>) @@
    "void" :> Sym("void", "symType", NullType, <<>>) @@
    "S"    :> Sym("S", "symStruct", NullType, <<"S.a">>) @@
    "x"    :> Sym("x", "symId", IntT, <<>>) @@
    "p"    :> Sym("p", "symId", typeCreatePtr(IntT), <<>>) @@
    "s"    :> Sym("s", "symId", StructS, <<>>) @@
    "sp"   :> Sym("sp", "symId", typeCreatePtr(StructS), <<>>) @@
    "f"    :> Sym("f", "symId", typeCreateFunction(IntT, 2), <<"f.a", "f.b">>) @@
    "g"    :> Sym("g", "symId", typeCreateFunction(IntT, 0), <<>>) @@
    "v"    :> Sym("v", "symId", typeCreateFunction(VoidT, 0), <<>>) @@
    "fp"   :> Sym("fp", "symId",
                 typeCreatePtr(typeCreateFunction(IntT, 1)), <<"fp.a">>) @@
    "h"    :> Sym("h", "symId", typeCreateFunction(IntT, 0), <<>>) @@
    "w"    :> Sym("w", "symId", typeCreateFunction(VoidT, 0), <<>>) @@
    "q"    :> Sym("q", "symId",
                 typeCreateFunction(typeCreatePtr(IntT), 0), <<>>) @@
    "S.a"  :> Sym("a", "symId", IntT, <<>>) @@
    "f.a"  :> Sym("a", "symPara", IntT, <<>>) @@
    "f.b"  :> Sym("b", "symPara", typeCreatePtr(IntT), <<>>) @@
    "fp.a" :> Sym("a", "symPara", IntT, <<>>)

\* symChild: the child of a symbol with the identifier, or none.
symChild(sym, ident) ==
    LET hits == { c \in DOMAIN Symbols :
                    /\ \E k \in 1..Len(Symbols[sym].children) :
                           Symbols[sym].children[k] = c
                    /\ Symbols[c].ident = ident }
    IN IF hits = {} THEN NullSym ELSE CHOOSE c \in hits : TRUE

typeIsInvalid(DT) == DT.tag = "Invalid"
typeIsBasic(DT) == DT.tag = "Basic" \/ typeIsInvalid(DT)
typeIsPtr(DT) == DT.tag = "Ptr" \/ typeIsInvalid(DT)
typeIsArray(DT) == DT.tag = "Array" \/ typeIsInvalid(DT)
typeIsFunction(DT) == DT.tag = "Function" \/ typeIsInvalid(DT)
typeIsVoid(DT) == (DT.tag = "Basic" /\ DT.basic = "void") \/ typeIsInvalid(DT)
typeIsRecord(DT) ==
    \/ DT.tag = "Basic" /\ Symbols[DT.basic].class \in {"symStruct", "symUnion"}
    \/ typeIsInvalid(DT)
typeIsNumeric(DT) ==
    (DT.tag = "Basic" /\ DT.basic \in {"int", "char", "bool"}) \/ typeIsInvalid(DT)
typeIsOrdinal(DT) == typeIsNumeric(DT) \/ typeIsPtr(DT)
typeIsEquality(DT) == typeIsOrdinal(DT) \/ typeIsPtr(DT)
typeIsCondition(DT) == typeIsEquality(DT)
typeIsCallable(DT) ==
    \/ DT.tag = "Function"
    \/ DT.tag = "Ptr" /\ DT.base.tag = "Function"
    \/ typeIsInvalid(DT)
typeIsAssignment(DT) ==
    \/ ~(DT.tag = "Function") /\ ~(DT.tag = "Basic" /\ DT.basic = "void")
    \/ typeIsInvalid(DT)

RECURSIVE typeIsCompatible(_, _)
typeIsCompatible(L, R) ==
    IF typeIsInvalid(L) \/ typeIsInvalid(R) THEN TRUE
    ELSE IF L.tag = "Basic" /\ R.tag = "Basic"
    THEN L.basic = R.basic \/ (typeIsNumeric(L) /\ typeIsNumeric(R))
    ELSE IF L.tag = "Ptr" /\ R.tag = "Ptr"
    THEN \/ typeIsCompatible(L.base, R.base)
         \/ L.base = VoidT
         \/ R.base = VoidT
    ELSE IF L.tag \in {"Ptr", "Array"} /\ R.tag \in {"Ptr", "Array"}
    THEN typeIsCompatible(L.base, R.base)
    ELSE FALSE

typeDeepDuplicate(DT) == DT
typeDeriveFrom(DT) == typeDeepDuplicate(DT)
typeDerivePtr(DT) == typeCreatePtr(typeDeepDuplicate(DT))
typeDeriveArray(DT, n) == typeCreateArray(typeDeepDuplicate(DT), n)
typeDeriveBase(DT) ==
    IF DT.tag \in {"Ptr", "Array"} THEN typeDeepDuplicate(DT.base)
    ELSE typeCreateInvalid
typeDeriveReturn(DT) ==
    IF DT.tag = "Function" THEN DT.returnType
    ELSE IF DT.tag = "Ptr" /\ DT.base.tag = "Function" THEN DT.base.returnType
    ELSE typeCreateInvalid

typeRank(DT) == IF DT.basic = "int" THEN 3 ELSE IF DT.basic = "char" THEN 2 ELSE 1

\* The pointer if either is one, else the numeric type of the wider rank;
\* an Invalid operand gives Invalid.
typeDeriveFromTwo(L, R) ==
    IF typeIsInvalid(L) \/ typeIsInvalid(R) THEN typeCreateInvalid
    ELSE IF L.tag \in {"Ptr", "Array"} THEN typeDeepDuplicate(L)
    ELSE IF R.tag \in {"Ptr", "Array"} THEN typeDeepDuplicate(R)
    ELSE IF L.tag = "Basic" /\ R.tag = "Basic" /\ L.basic # R.basic
    THEN (IF typeRank(L) >= typeRank(R) THEN L ELSE R)
    ELSE typeDeepDuplicate(L)
typeDeriveUnified(L, R) == typeDeriveFromTwo(L, R)

\* The parameter count the call rule reads: L->base->params through a
\* pointer, L->params otherwise.
typeParams(L) == IF L.tag = "Ptr" THEN L.base.params ELSE L.params

(***************************************************************************)
(* THE AST                                                                 *)
(***************************************************************************)

astCreate(class) ==
    [class |-> class, o |-> "", l |-> NullNode, r |-> NullNode,
     children |-> <<>>, litClass |-> "", literal |-> "", symbol |-> NullSym,
     dt |-> NullType, location |-> <<>>]

astCreateBOP(l, o, r) == [astCreate("astBOP") EXCEPT !.l = l, !.o = o, !.r = r]
astCreateUOP(o, r) == [astCreate("astUOP") EXCEPT !.o = o, !.r = r]
astCreateTOP(cond, l, r) ==
    [astCreate("astTOP") EXCEPT !.children = <<cond>>, !.l = l, !.r = r]
astCreateIndex(l, r) == [astCreate("astIndex") EXCEPT !.l = l, !.r = r]
\* A call's symbol is the symbol of the function called; its children are
\* the arguments.
astCreateCall(l, args) ==
    [astCreate("astCall") EXCEPT !.l = l, !.children = args, !.symbol = l.symbol]
astCreateLiteral(litClass, literal) ==
    [astCreate("astLiteral") EXCEPT !.litClass = litClass, !.literal = literal]
\* An identifier the parser resolved.
astCreateIdent(sym) ==
    [astCreateLiteral("literalIdent", Symbols[sym].ident) EXCEPT !.symbol = sym]
\* The name to the right of '.' or '->', which no scope resolves.
astCreateField(name) == astCreateLiteral("literalIdent", name)
astCreateArrayLiteral(elems) ==
    [astCreateLiteral("literalArray", "") EXCEPT !.children = elems]
astCreateInvalid == astCreate("astInvalid")
astCreateEmpty == astCreate("astEmpty")
astCreateCode(stmts) == [astCreate("astCode") EXCEPT !.children = stmts]
astCreateReturn(r) == [astCreate("astReturn") EXCEPT !.r = r]
astCreateDecl(sym) == [astCreate("astDecl") EXCEPT !.symbol = sym]
astCreateFnImpl(sym, body) ==
    [astCreate("astFnImpl") EXCEPT
        !.l = astCreateDecl(sym), !.r = body, !.symbol = sym]
astCreateBranch(cond, l, r) ==
    [astCreate("astBranch") EXCEPT !.children = <<cond>>, !.l = l, !.r = r]
\* A loop keeps the body in l and the condition in r when it is a do-while,
\* and the other way round when it is a while; o records which of the two
\* the parser saw (the analyzer does not read it).
astCreateLoop(form, cond, code) ==
    [astCreate("astLoop") EXCEPT
        !.o = form,
        !.l = IF form = "do" THEN code ELSE cond,
        !.r = IF form = "do" THEN cond ELSE code]
astCreateIter(init, cond, iter, code) ==
    [astCreate("astIter") EXCEPT !.children = <<init, cond, iter>>, !.l = code]
astCreateModule(tops) == [astCreate("astModule") EXCEPT !.children = tops]

astIsValueClass(class) ==
    class \in {"astBOP", "astUOP", "astTOP", "astIndex", "astCall",
               "astLiteral"}

\* The parser gives every node its own location: here, its path from the
\* module (0 for l, 1 for r, 1 + k for the k-th child).
RECURSIVE astLocate(_, _)
astLocate(Node, path) ==
    IF Node = NullNode THEN NullNode
    ELSE [Node EXCEPT
            !.location = path,
            !.l = astLocate(Node.l, Append(path, 0)),
            !.r = astLocate(Node.r, Append(path, 1)),
            !.children = [k \in 1..Len(Node.children) |->
                            astLocate(Node.children[k], Append(path, 1 + k))]]

\* Every node of a tree.
RECURSIVE astNodes(_)
astNodes(Node) ==
    IF Node = NullNode THEN {}
    ELSE {Node} \cup astNodes(Node.l) \cup astNodes(Node.r)
         \cup UNION { astNodes(Node.children[k]) : k \in 1..Len(Node.children) }

(***************************************************************************)
(* THE ANALYZER: DIAGNOSTICS                                               *)
(*                                                                         *)
(* The walk threads s = [ctx, out]: the analyzer context and the lines     *)
(* printed so far. A line records its kind, the location printed (that of  *)
(* the node handed to analyzerError) and the node whose rule reported it.  *)
(***************************************************************************)

NullLocation == <<-1>>

\* An analyzerError that counts each line twice.
analyzerErrorTwice(s, Node, kind, by) ==
    [ctx |-> [s.ctx EXCEPT !.errors = @ + 2],
     out |-> Append(s.out,
                [kind |-> kind, by |-> by, ub |-> Node = NullNode,
                 at |-> IF Node = NullNode THEN NullLocation ELSE Node.location])]

\* analyzerError: print one line at the node's location and count it. A
\* null node is dereferenced for its location: that line is marked ub.
analyzerError(s, Node, kind, by) ==
    [ctx |-> [s.ctx EXCEPT !.errors = @ + 1],
     out |-> Append(s.out,
                [kind |-> kind, by |-> by, ub |-> Node = NullNode,
                 at |-> IF Node = NullNode THEN NullLocation ELSE Node.location])]

analyzerErrorExpected(s, Node, by) == analyzerError(s, Node, "expected", by)
analyzerErrorExpectedType(s, Node, by) == analyzerError(s, Node, "expectedType", by)
analyzerErrorOp(s, Operand, by) == analyzerError(s, Operand, "operatorRequires", by)
analyzerErrorMismatch(s, Node, by) == analyzerError(s, Node, "typeMismatch", by)
analyzerErrorDegree(s, Node, by) == analyzerError(s, Node, "degreeMismatch", by)
analyzerErrorParamMismatch(s, Node, by) == analyzerError(s, Node, "paramMismatch", by)
analyzerErrorMember(s, Node, by) == analyzerError(s, Node, "missingMember", by)

(***************************************************************************)
(* THE ANALYZER: EXPRESSIONS (analyzer-value.c)                            *)
(***************************************************************************)

isNumericBOP(o) ==
    o \in {"+", "-", "*", "/", "%", "&", "|", "^", "<<", ">>",
           "+=", "-=", "*=", "/=", "%=", "&=", "|=", "^=", "<<=", ">>="}
isOrdinalBOP(o) == o \in {">", "<", ">=", "<="}
isEqualityBOP(o) == o \in {"==", "!="}
isAssignmentBOP(o) ==
    o \in {"=", "+=", "-=", "*=", "/=", "%=", "&=", "|=", "^=", "<<=", ">>="}
isMemberBOP(o) == o \in {".", "->"}
isDerefBOP(o) == o = "->"
isCommaBOP(o) == o = ","

\* What an analysis returns: the state after it and the node as annotated.
Done(s, Node) == [s |-> s, node |-> Node]

RECURSIVE analyzerValue(_, _)
RECURSIVE analyzerCallParams(_, _, _)

\* analyzerBOP giving an assignment the type of its left side.
analyzerBOPAssignLeft(s, Node) ==
    LET rl == analyzerValue(s, Node.l)
        rr == analyzerValue(rl.s, Node.r)
        L == rl.node.dt
        R == rr.node.dt
        s1 == IF /\ isNumericBOP(Node.o)
                 /\ (~typeIsNumeric(L) \/ ~typeIsNumeric(R))
              THEN analyzerErrorOp(rr.s,
                       IF ~typeIsNumeric(L) THEN Node.l ELSE Node.r,
                       Node.location)
              ELSE rr.s
        s2 == IF /\ isAssignmentBOP(Node.o)
                 /\ (~typeIsAssignment(L) \/ ~typeIsAssignment(R))
              THEN analyzerErrorOp(s1,
                       IF ~typeIsAssignment(L) THEN Node.l ELSE Node.r,
                       Node.location)
              ELSE s1
        N == [Node EXCEPT !.l = rl.node, !.r = rr.node]
    IN IF typeIsCompatible(L, R)
       THEN Done(s2, [N EXCEPT !.dt = IF isAssignmentBOP(Node.o)
                                      THEN typeDeriveFrom(L)
                                      ELSE typeDeriveFromTwo(L, R)])
       ELSE Done(analyzerErrorMismatch(s2, Node, Node.location),
                 [N EXCEPT !.dt = typeCreateInvalid])

\* analyzerBOP with the mismatch rule silent once an operand was rejected.
analyzerBOPOneError(s, Node) ==
    LET rl == analyzerValue(s, Node.l)
        rr == analyzerValue(rl.s, Node.r)
        L == rl.node.dt
        R == rr.node.dt
        s1 == IF /\ isNumericBOP(Node.o)
                 /\ (~typeIsNumeric(L) \/ ~typeIsNumeric(R))
              THEN analyzerErrorOp(rr.s,
                       IF ~typeIsNumeric(L) THEN Node.l ELSE Node.r,
                       Node.location)
              ELSE rr.s
        s2 == IF /\ isAssignmentBOP(Node.o)
                 /\ (~typeIsAssignment(L) \/ ~typeIsAssignment(R))
              THEN analyzerErrorOp(s1,
                       IF ~typeIsAssignment(L) THEN Node.l ELSE Node.r,
                       Node.location)
              ELSE s1
        N == [Node EXCEPT !.l = rl.node, !.r = rr.node]
    IN IF typeIsCompatible(L, R) \/ s2 # rr.s
       THEN Done(s2, [N EXCEPT !.dt = IF isAssignmentBOP(Node.o)
                                      THEN typeDeriveFrom(R)
                                      ELSE typeDeriveFromTwo(L, R)])
       ELSE Done(analyzerErrorMismatch(s2, Node, Node.location),
                 [N EXCEPT !.dt = typeCreateInvalid])

analyzerBOP(s, Node) ==
    LET rl == analyzerValue(s, Node.l)
        rr == analyzerValue(rl.s, Node.r)
        L == rl.node.dt
        R == rr.node.dt
        s1 == IF /\ isNumericBOP(Node.o)
                 /\ (~typeIsNumeric(L) \/ ~typeIsNumeric(R))
              THEN analyzerErrorOp(rr.s,
                       IF ~typeIsNumeric(L) THEN Node.l ELSE Node.r,
                       Node.location)
              ELSE rr.s
        s2 == IF /\ isAssignmentBOP(Node.o)
                 /\ (~typeIsAssignment(L) \/ ~typeIsAssignment(R))
              THEN analyzerErrorOp(s1,
                       IF ~typeIsAssignment(L) THEN Node.l ELSE Node.r,
                       Node.location)
              ELSE s1
        N == [Node EXCEPT !.l = rl.node, !.r = rr.node]
    IN IF typeIsCompatible(L, R)
       THEN Done(s2, [N EXCEPT !.dt = IF isAssignmentBOP(Node.o)
                                      THEN typeDeriveFrom(R)
                                      ELSE typeDeriveFromTwo(L, R)])
       ELSE Done(analyzerErrorMismatch(s2, Node, Node.location),
                 [N EXCEPT !.dt = typeCreateInvalid])

analyzerComparisonBOP(s, Node) ==
    LET rl == analyzerValue(s, Node.l)
        rr == analyzerValue(rl.s, Node.r)
        L == rl.node.dt
        R == rr.node.dt
        s1 == IF isOrdinalBOP(Node.o)
              THEN IF ~typeIsOrdinal(L) \/ ~typeIsOrdinal(R)
                   THEN analyzerErrorOp(rr.s,
                            IF ~typeIsOrdinal(L) THEN Node.l ELSE Node.r,
                            Node.location)
                   ELSE rr.s
              ELSE IF ~typeIsEquality(L) \/ ~typeIsEquality(R)
                   THEN analyzerErrorOp(rr.s,
                            IF ~typeIsEquality(L) THEN Node.l ELSE Node.r,
                            Node.location)
                   ELSE rr.s
        N == [Node EXCEPT !.l = rl.node, !.r = rr.node]
    IN IF typeIsCompatible(L, R)
       THEN Done(s1, [N EXCEPT !.dt = typeDeriveFromTwo(L, R)])
       ELSE Done(analyzerErrorMismatch(s1, Node, Node.location),
                 [N EXCEPT !.dt = typeCreateInvalid])

\* analyzerMemberBOP without the lookup through a pointer.
analyzerMemberBOPNoDeref(s, Node) ==
    LET rl == analyzerValue(s, Node.l)
        L == rl.node.dt
        s1 == IF isDerefBOP(Node.o)
              THEN IF ~typeIsPtr(L)
                   THEN analyzerErrorOp(rl.s, Node.l, Node.location)
                   ELSE IF ~typeIsRecord(L.base)
                   THEN analyzerErrorOp(rl.s, Node.l, Node.location)
                   ELSE rl.s
              ELSE IF ~typeIsRecord(L)
                   THEN analyzerErrorOp(rl.s, Node.l, Node.location)
                   ELSE rl.s
        symbol == IF typeIsBasic(L)
                  THEN symChild(L.basic, Node.r.literal)
                  ELSE Node.symbol
        N == [Node EXCEPT !.l = rl.node, !.symbol = symbol]
    IN IF symbol # NullSym
       THEN Done(s1, [N EXCEPT !.dt = typeDeepDuplicate(Symbols[symbol].dt)])
       ELSE Done(analyzerErrorMember(s1, Node.r, Node.location),
                 [N EXCEPT !.dt = typeCreateInvalid])

\* analyzerMemberBOP binding the field to the left operand as well.
analyzerMemberBOPBindOperand(s, Node) ==
    LET rl == analyzerValue(s, Node.l)
        L == rl.node.dt
        s1 == IF isDerefBOP(Node.o)
              THEN IF ~typeIsPtr(L)
                   THEN analyzerErrorOp(rl.s, Node.l, Node.location)
                   ELSE IF ~typeIsRecord(L.base)
                   THEN analyzerErrorOp(rl.s, Node.l, Node.location)
                   ELSE rl.s
              ELSE IF ~typeIsRecord(L)
                   THEN analyzerErrorOp(rl.s, Node.l, Node.location)
                   ELSE rl.s
        symbol == IF typeIsBasic(L)
                  THEN symChild(L.basic, Node.r.literal)
                  ELSE IF typeIsPtr(L) /\ typeIsBasic(L.base)
                  THEN symChild(L.base.basic, Node.r.literal)
                  ELSE Node.symbol
        N == [Node EXCEPT !.l = [rl.node EXCEPT !.symbol = symbol],
                          !.symbol = symbol]
    IN IF symbol # NullSym
       THEN Done(s1, [N EXCEPT !.dt = typeDeepDuplicate(Symbols[symbol].dt)])
       ELSE Done(analyzerErrorMember(s1, Node.r, Node.location),
                 [N EXCEPT !.dt = typeCreateInvalid])

\* The left operand is analyzed; the right one only names the field.
analyzerMemberBOP(s, Node) ==
    LET rl == analyzerValue(s, Node.l)
        L == rl.node.dt
        s1 == IF isDerefBOP(Node.o)
              THEN IF ~typeIsPtr(L)
                   THEN analyzerErrorOp(rl.s, Node.l, Node.location)
                   ELSE IF ~typeIsRecord(L.base)
                   THEN analyzerErrorOp(rl.s, Node.l, Node.location)
                   ELSE rl.s
              ELSE IF ~typeIsRecord(L)
                   THEN analyzerErrorOp(rl.s, Node.l, Node.location)
                   ELSE rl.s
        symbol == IF typeIsBasic(L)
                  THEN symChild(L.basic, Node.r.literal)
                  ELSE IF typeIsPtr(L) /\ typeIsBasic(L.base)
                  THEN symChild(L.base.basic, Node.r.literal)
                  ELSE Node.symbol
        N == [Node EXCEPT !.l = rl.node, !.symbol = symbol]
    IN IF symbol # NullSym
       THEN Done(s1, [N EXCEPT !.dt = typeDeepDuplicate(Symbols[symbol].dt)])
       ELSE Done(analyzerErrorMember(s1, Node.r, Node.location),
                 [N EXCEPT !.dt = typeCreateInvalid])

\* Only the right operand is analyzed.
analyzerCommaBOP(s, Node) ==
    LET rr == analyzerValue(s, Node.r)
        R == rr.node.dt
        N == [Node EXCEPT !.r = rr.node]
    IN IF ~typeIsVoid(R) \/ typeIsInvalid(R)
       THEN Done(rr.s, [N EXCEPT !.dt = typeDeepDuplicate(R)])
       ELSE Done(analyzerErrorOp(rr.s, Node.r, Node.location),
                 [N EXCEPT !.dt = typeCreateInvalid])

analyzerUOP(s, Node) ==
    LET rr == analyzerValue(s, Node.r)
        R == rr.node.dt
        N == [Node EXCEPT !.r = rr.node]
    IN IF Node.o \in {"+", "-", "++", "--", "!", "~"}
       THEN IF ~typeIsNumeric(R)
            THEN Done(analyzerErrorOp(rr.s, Node.r, Node.location),
                      [N EXCEPT !.dt = typeCreateInvalid])
            ELSE Done(rr.s, [N EXCEPT !.dt = typeDeriveFrom(R)])
       ELSE IF Node.o = "*"
       THEN IF typeIsPtr(R)
            THEN Done(rr.s, [N EXCEPT !.dt = typeDeriveBase(R)])
            ELSE Done(analyzerErrorOp(rr.s, Node.r, Node.location),
                      [N EXCEPT !.dt = typeCreateInvalid])
       ELSE IF Node.o = "&"
       THEN Done(rr.s, [N EXCEPT !.dt = typeDerivePtr(R)])
       ELSE Done(rr.s, [N EXCEPT !.dt = typeCreateInvalid])

analyzerTernary(s, Node) ==
    LET rc == analyzerValue(s, Node.children[1])
        rl == analyzerValue(rc.s, Node.l)
        rr == analyzerValue(rl.s, Node.r)
        Cond == rc.node.dt
        L == rl.node.dt
        R == rr.node.dt
        s1 == IF ~typeIsCondition(Cond)
              THEN analyzerErrorOp(rr.s, Node.children[1], Node.location)
              ELSE rr.s
        N == [Node EXCEPT !.children[1] = rc.node, !.l = rl.node, !.r = rr.node]
    IN IF typeIsCompatible(L, R)
       THEN Done(s1, [N EXCEPT !.dt = typeDeriveUnified(L, R)])
       ELSE Done(analyzerErrorMismatch(s1, Node, Node.location),
                 [N EXCEPT !.dt = typeCreateInvalid])

analyzerIndex(s, Node) ==
    LET rl == analyzerValue(s, Node.l)
        rr == analyzerValue(rl.s, Node.r)
        L == rl.node.dt
        R == rr.node.dt
        s1 == IF ~typeIsNumeric(R)
              THEN analyzerErrorOp(rr.s, Node.r, Node.location)
              ELSE rr.s
        N == [Node EXCEPT !.l = rl.node, !.r = rr.node]
    IN IF typeIsArray(L) \/ typeIsPtr(L)
       THEN Done(s1, [N EXCEPT !.dt = typeDeriveBase(L)])
       ELSE Done(analyzerErrorOp(s1, Node.l, Node.location),
                 [N EXCEPT !.dt = typeCreateInvalid])

\* firstChild: the first child, or null.
astFirstChild(Node) ==
    IF Node.children = <<>> THEN NullNode ELSE Node.children[1]

\* The loop with a cParam that never leaves the first parameter.
analyzerCallParamsFirstParam(s, Node, n) ==
    IF n >= Len(Node.children) \/ n >= Len(Symbols[Node.symbol].children)
    THEN Done(s, Node)
    ELSE LET rp == analyzerValue(s, Node.children[n + 1])
             cParam == Symbols[Symbols[Node.symbol].children[1]]
             s1 == IF ~typeIsCompatible(rp.node.dt, cParam.dt)
                   THEN analyzerErrorParamMismatch(rp.s, Node, Node.location)
                   ELSE rp.s
         IN analyzerCallParams(s1, [Node EXCEPT !.children[n + 1] = rp.node],
                               n + 1)

\* The loop of analyzerCall over the arguments and the parameter symbols,
\* from the n-th pair on (n counts from 0), until either list ends.
analyzerCallParams(s, Node, n) ==
    IF n >= Len(Node.children) \/ n >= Len(Symbols[Node.symbol].children)
    THEN Done(s, Node)
    ELSE LET rp == analyzerValue(s, Node.children[n + 1])
             cParam == Symbols[Symbols[Node.symbol].children[n + 1]]
             s1 == IF ~typeIsCompatible(rp.node.dt, cParam.dt)
                   THEN analyzerErrorParamMismatch(rp.s, Node, Node.location)
                   ELSE rp.s
         IN analyzerCallParams(s1, [Node EXCEPT !.children[n + 1] = rp.node],
                               n + 1)

analyzerCall(s, Node) ==
    LET rl == analyzerValue(s, Node.l)
        L == rl.node.dt
        N == [Node EXCEPT !.l = rl.node]
    IN IF ~typeIsCallable(L)
       THEN Done(analyzerErrorOp(rl.s, astFirstChild(Node), Node.location),
                 [N EXCEPT !.dt = typeCreateInvalid])
       ELSE LET M == [N EXCEPT !.dt = typeDeepDuplicate(
                                   typeDeriveReturn(Symbols[Node.symbol].dt))]
            IN IF typeParams(L) # Len(Node.children)
               THEN Done(analyzerErrorDegree(rl.s, Node, Node.location), M)
               ELSE analyzerCallParams(rl.s, M, 0)

analyzerLiteral(s, Node) ==
    IF Node.litClass = "literalInt"
    THEN Done(s, [Node EXCEPT !.dt = typeCreateBasic("int")])
    ELSE IF Node.litClass = "literalBool"
    THEN Done(s, [Node EXCEPT !.dt = typeCreateBasic("bool")])
    ELSE IF Node.litClass = "literalIdent"
    THEN Done(s, [Node EXCEPT !.dt = typeDeepDuplicate(Symbols[Node.symbol].dt)])
    ELSE Done(s, [Node EXCEPT !.dt = typeCreateInvalid])

\* Only the first element is analyzed.
analyzerArrayLiteral(s, Node) ==
    LET r1 == analyzerValue(s, Node.children[1])
    IN Done(r1.s, [Node EXCEPT
                     !.children[1] = r1.node,
                     !.dt = typeDeriveArray(r1.node.dt, Len(Node.children))])

analyzerValue(s, Node) ==
    IF Node.class = "astBOP"
    THEN IF isNumericBOP(Node.o) \/ isAssignmentBOP(Node.o)
         THEN analyzerBOP(s, Node)
         ELSE IF isOrdinalBOP(Node.o) \/ isEqualityBOP(Node.o)
         THEN analyzerComparisonBOP(s, Node)
         ELSE IF isMemberBOP(Node.o)
         THEN analyzerMemberBOP(s, Node)
         ELSE IF isCommaBOP(Node.o)
         THEN analyzerCommaBOP(s, Node)
         ELSE Done(s, [Node EXCEPT !.dt = typeCreateInvalid])
    ELSE IF Node.class = "astUOP" THEN analyzerUOP(s, Node)
    ELSE IF Node.class = "astTOP" THEN analyzerTernary(s, Node)
    ELSE IF Node.class = "astIndex" THEN analyzerIndex(s, Node)
    ELSE IF Node.class = "astCall" THEN analyzerCall(s, Node)
    ELSE IF Node.class = "astLiteral"
    THEN IF Node.litClass = "literalArray"
         THEN analyzerArrayLiteral(s, Node)
         ELSE analyzerLiteral(s, Node)
    ELSE Done(s, [Node EXCEPT !.dt = typeCreateInvalid])

(***************************************************************************)
(* THE ANALYZER: STATEMENTS (analyzer.c)                                   *)
(***************************************************************************)

\* analyzerDecl and analyzerDeclStruct, for a declaration without an
\* initializer: nothing to check.
analyzerDecl(s, Node) == Done(s, Node)
analyzerDeclStruct(s, Node) == Done(s, Node)

RECURSIVE analyzerNode(_, _)
RECURSIVE analyzerChildren(_, _, _)

\* The loop of analyzerModule and analyzerCode, from the k-th child on.
analyzerChildren(s, Node, k) ==
    IF k > Len(Node.children) THEN Done(s, Node)
    ELSE LET rc == analyzerNode(s, Node.children[k])
         IN analyzerChildren(rc.s, [Node EXCEPT !.children[k] = rc.node], k + 1)

analyzerCode(s, Node) == analyzerChildren(s, Node, 1)

\* The test of a condition: r is the analysis of the condition, by the
\* construct it belongs to.
analyzerCondition(r, by) ==
    IF ~typeIsCondition(r.node.dt)
    THEN Done(analyzerErrorExpected(r.s, r.node, by), r.node)
    ELSE r

\* analyzerBranch once its condition is analyzed and tested (rc).
analyzerBranchCode(Node, rc) ==
    LET rl == analyzerNode(rc.s, Node.l)
        rr == IF Node.r # NullNode THEN analyzerNode(rl.s, Node.r)
              ELSE Done(rl.s, Node.r)
    IN Done(rr.s, [Node EXCEPT !.children[1] = rc.node,
                               !.l = rl.node, !.r = rr.node])

analyzerBranch(s, Node) ==
    analyzerBranchCode(Node,
        analyzerCondition(analyzerValue(s, Node.children[1]), Node.location))

\* analyzerLoop once its condition is analyzed and tested (rc).
analyzerLoopCode(Node, isDo, rc) ==
    LET rb == analyzerNode(rc.s, IF isDo THEN Node.l ELSE Node.r)
    IN Done(rb.s, [Node EXCEPT !.l = IF isDo THEN rb.node ELSE rc.node,
                               !.r = IF isDo THEN rc.node ELSE rb.node])

analyzerLoop(s, Node) ==
    analyzerLoopCode(Node, Node.l.class = "astCode",
        analyzerCondition(
            analyzerValue(s, IF Node.l.class = "astCode" THEN Node.r ELSE Node.l),
            Node.location))

\* analyzerIter from its code on: ri, rc and rt are the analyses of the
\* initializer, the condition and the iterator.
analyzerIterCode(Node, ri, rc, rt) ==
    LET rb == analyzerNode(rt.s, Node.l)
    IN Done(rb.s, [Node EXCEPT !.children = <<ri.node, rc.node, rt.node>>,
                               !.l = rb.node])

analyzerIterIterator(Node, ri, rc) ==
    analyzerIterCode(Node, ri, rc,
        IF Node.children[3].class # "astEmpty"
        THEN analyzerValue(rc.s, Node.children[3])
        ELSE Done(rc.s, Node.children[3]))

analyzerIterCondition(Node, ri) ==
    analyzerIterIterator(Node, ri,
        IF Node.children[2].class # "astEmpty"
        THEN analyzerCondition(analyzerValue(ri.s, Node.children[2]),
                               Node.location)
        ELSE Done(ri.s, Node.children[2]))

analyzerIter(s, Node) ==
    analyzerIterCondition(Node,
        IF Node.children[1].class = "astDecl"
        THEN analyzerNode(s, Node.children[1])
        ELSE IF Node.children[1].class # "astEmpty"
        THEN analyzerValue(s, Node.children[1])
        ELSE Done(s, Node.children[1]))

\* A return without an expression compared as a value of type void.
analyzerReturnNoValueVoid == VoidT

\* The type a return without an expression is compared with.
analyzerReturnNoValue == typeCreateInvalid

\* analyzerReturn once the expression, if any, is analyzed (rr) and its
\* type is R.
analyzerReturnCheck(Node, rr, R) ==
    IF ~typeIsCompatible(R, rr.s.ctx.returnType)
    THEN Done(analyzerErrorExpectedType(rr.s, Node.r, Node.location),
              [Node EXCEPT !.r = rr.node])
    ELSE Done(rr.s, [Node EXCEPT !.r = rr.node])

analyzerReturnValue(Node, rr) == analyzerReturnCheck(Node, rr, rr.node.dt)

analyzerReturn(s, Node) ==
    IF Node.r # NullNode
    THEN analyzerReturnValue(Node, analyzerValue(s, Node.r))
    ELSE analyzerReturnCheck(Node, Done(s, Node.r), analyzerReturnNoValue)

\* analyzerFnImpl in one piece (the walk below takes it in three steps).
analyzerFnImpl(s, Node) ==
    LET rd == analyzerDecl(s, Node.l)
        s1 == [rd.s EXCEPT !.ctx.returnType = Symbols[Node.symbol].dt.returnType]
        rb == analyzerNode(s1, Node.r)
    IN Done([rb.s EXCEPT !.ctx.returnType = NullType],
            [Node EXCEPT !.l = rd.node, !.r = rb.node])

analyzerNode(s, Node) ==
    IF Node.class \in {"astEmpty", "astInvalid", "astBreak"} THEN Done(s, Node)
    ELSE IF Node.class = "astFnImpl" THEN analyzerFnImpl(s, Node)
    ELSE IF Node.class = "astDeclStruct" THEN analyzerDeclStruct(s, Node)
    ELSE IF Node.class = "astDecl" THEN analyzerDecl(s, Node)
    ELSE IF Node.class = "astCode" THEN analyzerCode(s, Node)
    ELSE IF Node.class = "astBranch" THEN analyzerBranch(s, Node)
    ELSE IF Node.class = "astLoop" THEN analyzerLoop(s, Node)
    ELSE IF Node.class = "astIter" THEN analyzerIter(s, Node)
    ELSE IF Node.class = "astReturn" THEN analyzerReturn(s, Node)
    ELSE IF astIsValueClass(Node.class) THEN analyzerValue(s, Node)
    ELSE Done(s, Node)

(***************************************************************************)
(* THE MODULES ANALYZED                                                    *)
(***************************************************************************)

LitInt == astCreateLiteral("literalInt", "1")
LitBool == astCreateLiteral("literalBool", "true")

\* 1, true, x, p, s, the function designator g, and the node the parser
\* leaves for an undefined identifier.
Leaves ==
    { LitInt, LitBool, astCreateIdent("x"), astCreateIdent("p"),
      astCreateIdent("s"), astCreateIdent("g"), astCreateInvalid }

Callees == { astCreateIdent(c) : c \in {"f", "g", "v", "fp", "x"} }

BinaryOps == {"+", "=", "+=", "<", "==", ","}
UnaryOps == {"-", "++", "*", "&"}

ArgLists(E) == UNION { [1..n -> E] : n \in 0..MaxArgs }

\* Every expression of one operator over the operands in E.
ExprsOver(E) ==
    { astCreateBOP(l, o, r) : l \in E, o \in BinaryOps, r \in E }
    \cup { astCreateUOP(o, r) : o \in UnaryOps, r \in E }
    \cup { astCreateTOP(c, l, r) : c \in E, l \in E, r \in E }
    \cup { astCreateIndex(l, r) : l \in E, r \in E }
    \cup { astCreateCall(l, a) : l \in Callees, a \in ArgLists(E) }
    \cup { astCreateArrayLiteral(a) : a \in ArgLists(E) \ {<<>>} }

Members ==
    { astCreateBOP(astCreateIdent(l), o, astCreateField(r)) :
        l \in {"s", "sp", "x", "p", "g"}, o \in {".", "->"},
        r \in {"a", "b"} }

\* Operands of the nested expressions: x, *p, f(1, p), g(), v(), s + 1.
Core ==
    { astCreateIdent("x"),
      astCreateUOP("*", astCreateIdent("p")),
      astCreateCall(astCreateIdent("f"), <<LitInt, astCreateIdent("p")>>),
      astCreateCall(astCreateIdent("g"), <<>>),
      astCreateCall(astCreateIdent("v"), <<>>),
      astCreateBOP(astCreateIdent("s"), "+", LitInt) }

Exprs == Leaves \cup ExprsOver(Leaves) \cup Members \cup ExprsOver(Core)

\* The conditions and the bodies of the branches and loops: x, s and true;
\* { x; }, and the statements x; and s; without braces.
Conditions == { astCreateIdent("x"), astCreateIdent("s"), LitBool }
Bodies ==
    { astCreateCode(<<astCreateIdent("x")>>), astCreateIdent("x"),
      astCreateIdent("s") }

Branches ==
    { astCreateBranch(c, b, e) :
        c \in Conditions, b \in Bodies,
        e \in {NullNode, astCreateCode(<<astCreateIdent("x")>>)} }

Loops ==
    { astCreateLoop(form, c, b) :
        form \in {"while", "do"}, c \in Conditions, b \in Bodies }

Iters ==
    { astCreateIter(i, c, t, b) :
        i \in {astCreateEmpty, astCreateDecl("x"), astCreateIdent("x")},
        c \in {astCreateEmpty, astCreateIdent("x"), astCreateIdent("s")},
        t \in {astCreateEmpty, astCreateUOP("++", astCreateIdent("x"))},
        b \in {astCreateCode(<<astCreateIdent("x")>>), astCreateIdent("x")} }

\* A function body of one statement: an expression, or a return with or
\* without one.
Stmts ==
    Exprs \cup { astCreateReturn(e) : e \in Exprs \cup {NullNode} }
    \cup Branches \cup Loops \cup Iters

Implemented == {"h", "w", "q"}

\* The top-level nodes of the modules of several nodes.
TopNodes ==
    { astCreateDecl("x"),
      astCreateFnImpl("h", astCreateCode(<<astCreateReturn(astCreateIdent("x"))>>)),
      astCreateFnImpl("w", astCreateCode(
          <<astCreateBOP(astCreateIdent("s"), "+", LitInt),
            astCreateReturn(NullNode)>>)) }

Modules ==
    { astLocate(astCreateModule(<<astCreateFnImpl(fn, astCreateCode(<<st>>))>>), <<>>) :
        fn \in Implemented, st \in Stmts }
    \cup { astLocate(astCreateModule(tops), <<>>) :
             tops \in UNION { [1..n -> TopNodes] : n \in 0..MaxTop } }

(***************************************************************************)
(* THE ANALYZER: THE RUN                                                   *)
(***************************************************************************)

\* What malloc may leave in a field that analyzerInit does not set.
Uninitialized == { NullType, [tag |-> "garbage"] }

\* An analyzerInit that keeps the error count of the context before it.
analyzerInitKeepCount(rt) ==
    [errors |-> actx.errors, warnings |-> 0, returnType |-> rt]

\* analyzerInit: errors and warnings are cleared; returnType is not set.
analyzerInit(rt) == [errors |-> 0, warnings |-> 0, returnType |-> rt]

\* What is kept of a run that has returned: the tree as it left it, the
\* lines it printed and the count it returned.
NoRun == [tree |-> NullNode, out |-> <<>>, result |-> 0]

\* analyzer(): a run starts on a module.
analyzer ==
    /\ phase = "idle"
    /\ phase' = "analyzing"
    /\ \E Tree \in Modules : tree' = Tree
    /\ \E rt \in Uninitialized : actx' = analyzerInit(rt)
    /\ out' = <<>>
    /\ apc' = [at |-> "module", i |-> 1, result |-> 0, run |-> 1,
               first |-> NoRun]
    /\ UNCHANGED <<pvars, decl>>

\* analyzer() is called again on the tree the first run has annotated,
\* with the same built-in types: a new context, and the lines of this run
\* are counted apart from those of the first.
analyzerAgain ==
    /\ phase = "analyzed"
    /\ apc.run = 1
    /\ phase' = "analyzing"
    /\ \E rt \in Uninitialized : actx' = analyzerInit(rt)
    /\ out' = <<>>
    /\ apc' = [at |-> "module", i |-> 1, result |-> 0, run |-> 2,
               first |-> [tree |-> tree, out |-> out, result |-> apc.result]]
    /\ UNCHANGED <<tree, pvars, decl>>

Walking(at) == phase = "analyzing" /\ apc.at = at

\* The top-level node analyzerModule has reached.
Current == tree.children[apc.i]

\* The step of the walk that is due, as an analysis of a node: the body of
\* the function implementation, or the top-level node.
Pending ==
    analyzerNode([ctx |-> actx, out |-> out],
                 IF apc.at = "body" THEN Current.r ELSE Current)

\* The lines from the n-th on that dereference a null node.
Faults(lines, n) == { k \in n..Len(lines) : lines[k].ub }

\* The context and the output take the result of an analysis.
Commit(r) ==
    /\ actx' = r.s.ctx
    /\ out' = r.s.out

\* analyzerModule reaches a node that is not a function implementation.
analyzerModule ==
    /\ Walking("module")
    /\ apc.i <= Len(tree.children)
    /\ Current.class # "astFnImpl"
    /\ \E r \in {Pending} :
        /\ tree' = [tree EXCEPT !.children[apc.i] = r.node]
        /\ Commit(r)
    /\ apc' = [apc EXCEPT !.i = @ + 1]
    /\ UNCHANGED <<phase, pvars, decl>>

\* analyzerFnImpl, to the walk of the body: the declarator is analyzed and
\* returnType set.
analyzerFnImplEnter ==
    /\ Walking("module")
    /\ apc.i <= Len(tree.children)
    /\ Current.class = "astFnImpl"
    /\ LET rd == analyzerDecl([ctx |-> actx, out |-> out], Current.l)
       IN /\ tree' = [tree EXCEPT !.children[apc.i].l = rd.node]
          /\ actx' = [rd.s.ctx EXCEPT
                        !.returnType = Symbols[Current.symbol].dt.returnType]
          /\ out' = rd.s.out
    /\ apc' = [apc EXCEPT !.at = "body"]
    /\ UNCHANGED <<phase, pvars, decl>>

\* analyzerFnImpl: the body is walked.
analyzerFnImplBody ==
    /\ Walking("body")
    /\ \E r \in {Pending} :
        /\ tree' = [tree EXCEPT !.children[apc.i].r = r.node]
        /\ Commit(r)
    /\ apc' = [apc EXCEPT !.at = "leave"]
    /\ UNCHANGED <<phase, pvars, decl>>

\* analyzerFnImpl: returnType is cleared, and analyzerModule goes on.
analyzerFnImplLeave ==
    /\ Walking("leave")
    /\ actx' = [actx EXCEPT !.returnType = NullType]
    /\ apc' = [apc EXCEPT !.at = "module", !.i = @ + 1]
    /\ UNCHANGED <<phase, tree, out, pvars, decl>>

\* The walk of the body dereferences a null node and the run is killed; the
\* lines printed before that stay printed.
analyzerFault ==
    /\ Walking("body")
    /\ \E r \in {Pending} :
        /\ Faults(r.s.out, Len(out) + 1) # {}
        /\ \E k \in Faults(r.s.out, Len(out) + 1) :
            /\ \A m \in Faults(r.s.out, Len(out) + 1) : k <= m
            /\ out' = SubSeq(r.s.out, 1, k - 1)
    /\ phase' = "crashed"
    /\ UNCHANGED <<tree, actx, apc, pvars, decl>>

\* analyzer() returns the counts.
analyzerEnd ==
    /\ Walking("module")
    /\ apc.i > Len(tree.children)
    /\ phase' = "analyzed"
    /\ apc' = [apc EXCEPT !.at = "end", !.result = actx.errors]
    /\ UNCHANGED <<tree, actx, out, pvars, decl>>

AnalyzerNext ==
    \/ analyzer
    \/ analyzerModule
    \/ analyzerFnImplEnter
    \/ analyzerFnImplBody
    \/ analyzerFnImplLeave
    \/ analyzerFault
    \/ analyzerEnd

(***************************************************************************)
(* THE EMITTER'S RECORD LAYOUT (emitter-decl.c)                            *)
(*                                                                         *)
(* A record symbol is [size, children]; a field is [dtSize, offset], where *)
(* dtSize is what typeGetSize answers for the field's type.  The sizes of  *)
(* the model stay far below the width of int, so no sum wraps.             *)
(***************************************************************************)

\* The word sizes of the architectures: four bytes or eight.
WordSizes == {4, 8}

\* The field lists the parser can leave under a record symbol, before
\* layout.  The sizes are those typeGetSize can answer: 0 for void, for an
\* invalid type and for a record without fields, a positive number of bytes
\* for the others.
FieldLists ==
    UNION {[1..n -> {[dtSize |-> z, offset |-> 0] : z \in 0..MaxFieldSize}]
           : n \in 0..MaxFields}

\* typeGetSize(arch, Current->dt).
typeGetSize(arch, field) == field.dtSize

\* max() of two ints.
max(a, b) == IF a > b THEN a ELSE b

\* C's division of ints by a positive divisor: the quotient is truncated
\* toward zero, so (0 - 1)/alignment is 0 for every alignment above 1.
CDiv(a, b) == IF a >= 0 THEN a \div b ELSE -((-a) \div b)

RECURSIVE emitterStruct(_, _, _)
\* emitterStruct that adds the bare size of a field, with no rounding.
emitterStructPacked(ctx, symbol, k) ==
    IF k > Len(symbol.children) THEN symbol
    ELSE LET Field == symbol.children[k]
         IN  emitterStruct(ctx,
                 [size |-> symbol.size + typeGetSize(ctx.arch, Field),
                  children |-> [symbol.children EXCEPT
                                    ![k].offset = symbol.size]],
                 k + 1)

\* emitterStruct: the loop from the k-th child on.  Each field is put at the
\* size reached so far, and the size grows by the field's words.
emitterStruct(ctx, symbol, k) ==
    IF k > Len(symbol.children) THEN symbol
    ELSE LET Field == symbol.children[k]
             alignment == ctx.arch.wordsize
         IN  emitterStruct(ctx,
                 [size |-> symbol.size
                           + CDiv(typeGetSize(ctx.arch, Field) - 1, alignment)
                             * alignment
                           + alignment,
                  children |-> [symbol.children EXCEPT
                                    ![k].offset = symbol.size]],
                 k + 1)

RECURSIVE emitterUnion(_, _, _)
\* emitterUnion: the loop from the k-th child on.  Every field is put at 0
\* and the size is the largest field seen.
emitterUnion(ctx, symbol, k) ==
    IF k > Len(symbol.children) THEN symbol
    ELSE LET Field == symbol.children[k]
         IN  emitterUnion(ctx,
                 [size |-> max(symbol.size, typeGetSize(ctx.arch, Field)),
                  children |-> [symbol.children EXCEPT ![k].offset = 0]],
                 k + 1)

\* emitterDecl: the emitter comes to a declaration whose basic type is a
\* record with a body; the symbol is as the parser left it, its size 0.
emitterDecl ==
    /\ phase = "idle"
    /\ phase' = "emitting"
    /\ \E tag \in {"struct", "union"}, w \in WordSizes, fields \in FieldLists :
           decl' = [tag |-> tag, ctx |-> [arch |-> [wordsize |-> w]],
                    symbol |-> [size |-> 0, children |-> fields]]
    /\ UNCHANGED <<pvars, avars>>

\* emitterDeclBasic: the record is laid out by the function of its tag.
emitterDeclBasic ==
    /\ phase = "emitting"
    /\ phase' = "emitted"
    /\ decl' = [decl EXCEPT !.symbol =
                   IF decl.tag = "struct"
                   THEN emitterStruct(decl.ctx, decl.symbol, 1)
                   ELSE emitterUnion(decl.ctx, decl.symbol, 1)]
    /\ UNCHANGED <<pvars, avars>>

EmitterNext ==
    \/ emitterDecl
    \/ emitterDeclBasic

Init ==
    /\ phase = "idle"
    /\ lexer = NoLexer
    /\ pctx = NoParserCtx
    /\ pout = <<>>
    /\ keys = 0
    /\ pcall = NoCall
    /\ tree = NullNode
    /\ actx = [errors |-> 0, warnings |-> 0, returnType |-> NullType]
    /\ out = <<>>
    /\ apc = [at |-> "none", i |-> 0, result |-> 0, run |-> 0, first |-> NoRun]
    /\ decl = [tag |-> "none", ctx |-> [arch |-> [wordsize |-> 0]],
               symbol |-> [size |-> 0, children |-> <<>>]]

Next == ParserNext \/ AnalyzerNext

Spec == Init /\ [][Next]_vars

\* A parser that calls nothing but the match primitives, a user who presses
\* the key error() waits for, and every call that can be made is made.
MatchNext ==
    \/ parser
    \/ tokenMatchToken
    \/ tokenMatchStr
    \/ tokenMatchInt
    \/ tokenMatchIdent
    \/ getcharReturn
    \/ keypress

MatchSpec == Init /\ [][MatchNext]_vars /\ WF_vars(MatchNext)

\* A driver that calls analyzer() a second time on the same tree.
TwiceNext == AnalyzerNext \/ analyzerAgain

TwiceSpec == Init /\ [][TwiceNext]_vars

\* A back end that lays out one record declaration.
LayoutSpec == Init /\ [][EmitterNext]_vars

(***************************************************************************)
(* WHAT THE CLAIMS SPEAK OF                                                *)
(***************************************************************************)

\* The lines a node's rule reported, of one kind and of any.
Lines(by, kind) ==
    Cardinality({ k \in 1..Len(out) : out[k].by = by /\ out[k].kind = kind })
LinesBy(by) == Cardinality({ k \in 1..Len(out) : out[k].by = by })

\* The function implementations whose body has been walked to its end.
WalkedImpls ==
    IF phase \in {"analyzing", "analyzed"}
    THEN { k \in 1..Len(tree.children) :
             /\ tree.children[k].class = "astFnImpl"
             /\ (k < apc.i \/ (k = apc.i /\ apc.at = "leave")) }
    ELSE {}

\* The nodes of those bodies, and the ones among them an analysis typed.
WalkedNodes == UNION { astNodes(tree.children[k].r) : k \in WalkedImpls }
TypedNodes == { n \in WalkedNodes : n.dt # NullType }

ExpressionClasses ==
    {"astBOP", "astUOP", "astTOP", "astIndex", "astCall", "astLiteral",
     "astInvalid"}

\* The operands of a node: its l, r and children.
Operands(n) ==
    ({n.l, n.r} \cup { n.children[k] : k \in 1..Len(n.children) }) \ {NullNode}

\* The statements of the body the run was killed in.
KilledStatements ==
    IF phase = "crashed"
    THEN { tree.children[apc.i].r.children[k] :
             k \in 1..Len(tree.children[apc.i].r.children) }
    ELSE {}

\* The declared type of the callee and of its k-th parameter.
CalleeType(c) == Symbols[c.symbol].dt
ParamType(c, k) == Symbols[Symbols[c.symbol].children[k]].dt
Callable(DT) ==
    DT.tag = "Function" \/ (DT.tag = "Ptr" /\ DT.base.tag = "Function")

(***************************************************************************)
(* THE CLAIMS                                                              *)
(***************************************************************************)

\* C1: once analyzer() has returned, every expression-class node of the
\* module (BOP, UOP, TOP, Index, Call, Literal, Invalid) has a dt.
C1_EveryExpressionTyped ==
    phase = "analyzed" =>
        \A n \in astNodes(tree) :
            n.class \in ExpressionClasses => n.dt # NullType

\* C2: no cascade. A typed node one of whose operands has the Invalid type
\* reports nothing, and no node reports more than one line.
C2_OneDiagnosticPerOffence ==
    phase = "analyzed" =>
        \A n \in TypedNodes :
            /\ LinesBy(n.location) <= 1
            /\ (\E m \in Operands(n) : m.dt = typeCreateInvalid)
                   => LinesBy(n.location) = 0

\* C3: in the parser and in the analyzer the error counter starts at 0,
\* never decreases, goes up by one with every line printed and by nothing
\* else, and so equals the number of lines printed; analyzer() returns the
\* number of lines its run printed.
C3_StartsAtZero ==
    /\ (phase = "parsing" /\ pcall = NoCall) => pctx.errors = 0
    /\ (phase = "analyzing" /\ apc.at = "module" /\ apc.i = 1) => actx.errors = 0

C3_CountsLines ==
    /\ phase = "parsing" => pctx.errors = Len(pout)
    /\ phase \in {"analyzing", "analyzed"} => actx.errors = Len(out)
    /\ phase = "analyzed" => apc.result = Len(out)

C3_StepsWithLines ==
    /\ (phase = "parsing" /\ phase' = "parsing") =>
           /\ pctx'.errors >= pctx.errors
           /\ pctx'.errors - pctx.errors = Len(pout') - Len(pout)
           /\ Len(pout') - Len(pout) \in {0, 1}
    /\ (phase = "analyzing" /\ phase' \in {"analyzing", "analyzed"}) =>
           /\ actx'.errors >= actx.errors
           /\ actx'.errors - actx.errors = Len(out') - Len(out)

C3_ErrorCountIsLineCount ==
    /\ [](C3_StartsAtZero /\ C3_CountsLines)
    /\ [][C3_StepsWithLines]_vars

C3_Witness ==
    /\ phase = "analyzed"
    /\ apc.result = 2
    /\ Len(out) = 2

\* C4: a match primitive that has returned has advanced the lexer by exactly
\* one token (at the end of file it stays there); if the token matched it
\* printed nothing, and if not it printed exactly one 'expected' line and
\* counted one error. So match calls alone bring the lexer to the end of
\* the stream.
MatchPrimitives ==
    {"tokenMatchToken", "tokenMatchStr", "tokenMatchInt", "tokenMatchIdent"}

AtEOF == lexerToken(lexer).class = "tokenEOF"

C4_MatchReturned ==
    (phase = "parsing" /\ pcall.at = "ready" /\ pcall.op \in MatchPrimitives) =>
        /\ lexer.pos = IF pcall.pos0 <= Len(lexer.tokens)
                       THEN pcall.pos0 + 1 ELSE pcall.pos0
        /\ pcall.matched =>
               pctx.errors = pcall.errors0 /\ Len(pout) = pcall.lines0
        /\ ~pcall.matched =>
               /\ pctx.errors = pcall.errors0 + 1
               /\ Len(pout) = pcall.lines0 + 1
               /\ pout[Len(pout)].kind = "expected"

AdvancingPrimitives ==
    MatchPrimitives \cup {"tokenNext", "tokenMatch", "tokenDupMatch"}

C5_LocationMirrorsLexer ==
    (/\ phase = "parsing"
     /\ pcall.at = "ready"
     /\ \/ pcall.op \in AdvancingPrimitives
        \/ pcall.op = "tokenTryMatchStr" /\ pcall.matched) =>
        pctx.location = streamLocation(lexer)

\* C6: a call that has been analyzed, or that the run died in: with a
\* callable callee its dt is the callee's return type, and a wrong number of
\* arguments gives exactly one degreeMismatch line and no paramMismatch
\* line; with a callee that is not callable exactly one operatorRequires
\* line is printed and dt is Invalid.
CallsEntered ==
    { n \in TypedNodes \cup KilledStatements : n.class = "astCall" }

C6_Call(c) ==
    IF Callable(CalleeType(c))
    THEN /\ c.dt = typeDeriveReturn(CalleeType(c))
         /\ typeParams(CalleeType(c)) # Len(c.children) =>
                /\ Lines(c.location, "degreeMismatch") = 1
                /\ Lines(c.location, "paramMismatch") = 0
    ELSE /\ Lines(c.location, "operatorRequires") = 1
         /\ c.dt = typeCreateInvalid

C6_CallResult == \A c \in CallsEntered : C6_Call(c)

\* C7: an analyzed call of a Function or a Pointer-to-Function with as many
\* arguments as parameters has every argument analyzed, and printed as many
\* paramMismatch lines as there are arguments whose type is not compatible
\* with the type of the parameter in their place.
FittingCalls ==
    { c \in TypedNodes :
        /\ c.class = "astCall"
        /\ Callable(CalleeType(c))
        /\ typeParams(CalleeType(c)) = Len(c.children) }

C7_ParamMismatchPerArgument ==
    \A c \in FittingCalls :
        /\ \A k \in 1..Len(c.children) : c.children[k].dt # NullType
        /\ Lines(c.location, "paramMismatch") =
               Cardinality({ k \in 1..Len(c.children) :
                   ~typeIsCompatible(c.children[k].dt, ParamType(c, k)) })

C7_Witness ==
    \E c \in FittingCalls :
        /\ Len(c.children) = 2
        /\ Lines(c.location, "paramMismatch") = 2

\* C8 as claimed: '+' of a Pointer(int) and an int prints nothing and has
\* the type Pointer(int).
PointerSums ==
    { n \in WalkedNodes :
        /\ n.class = "astBOP"
        /\ n.o \in {"+", "-"}
        /\ n.l.dt = typeCreatePtr(IntT)
        /\ n.r.dt = IntT }

C9_Return(fn, n) ==
    IF n.r # NullNode
    THEN /\ n.r.dt # NullType
         /\ Lines(n.location, "expectedType") =
                IF typeIsCompatible(n.r.dt, Symbols[fn.symbol].dt.returnType)
                THEN 0 ELSE 1
         /\ LinesBy(n.location) = Lines(n.location, "expectedType")
    ELSE LinesBy(n.location) = 0

C9_ReturnChecked ==
    \A k \in WalkedImpls :
        \A n \in astNodes(tree.children[k].r) :
            n.class = "astReturn" => C9_Return(tree.children[k], n)

\* int g(); int h(void) { return g; }
C9_Witness ==
    \E k \in WalkedImpls :
        \E n \in astNodes(tree.children[k].r) :
            /\ n.class = "astReturn"
            /\ tree.children[k].symbol = "h"
            /\ n.r.class = "astLiteral"
            /\ n.r.symbol = "g"
            /\ Lines(n.location, "expectedType") = 1
            /\ Len(out) = 1

\* C10: returnType is the declared return type of the function whose body
\* is being walked, and null at every other point of a run.
C10_ReturnTypeScoped ==
    /\ (phase = "analyzing" /\ apc.at \in {"body", "leave"}) =>
           actx.returnType = Symbols[Current.symbol].dt.returnType
    /\ (phase = "analyzed" \/ (phase = "analyzing" /\ apc.at = "module")) =>
           actx.returnType = NullType

\* C11: a member access whose left operand has a type other than Invalid.
\* It prints nothing only if the operand has the shape the operator asks
\* for ('.': a record; '->': a pointer to a record). With that shape and a
\* field of the record named by the right operand, nothing is printed, the
\* node's symbol is the field and dt the field's type; with that shape and
\* no such field, exactly one missingMember line is printed, dt is Invalid
\* and the symbol stays unbound.
MemberNodes ==
    { n \in TypedNodes :
        /\ n.class = "astBOP"
        /\ n.o \in {".", "->"}
        /\ n.l.dt.tag # "Invalid" }

IsRecordType(DT) ==
    DT.tag = "Basic" /\ Symbols[DT.basic].class \in {"symStruct", "symUnion"}

MemberShape(n) ==
    IF n.o = "."
    THEN IsRecordType(n.l.dt)
    ELSE n.l.dt.tag = "Ptr" /\ IsRecordType(n.l.dt.base)

MemberRecord(n) == IF n.o = "." THEN n.l.dt.basic ELSE n.l.dt.base.basic

\* The fields of the record with the name the right operand gives.
MemberFields(n) ==
    { Symbols[MemberRecord(n)].children[k] :
        k \in { j \in 1..Len(Symbols[MemberRecord(n)].children) :
                  Symbols[Symbols[MemberRecord(n)].children[j]].ident
                      = n.r.literal } }

C11_Member(n) ==
    /\ LinesBy(n.location) = 0 => MemberShape(n)
    /\ (MemberShape(n) /\ MemberFields(n) # {}) =>
           /\ LinesBy(n.location) = 0
           /\ n.symbol \in MemberFields(n)
           /\ n.dt = Symbols[n.symbol].dt
    /\ (MemberShape(n) /\ MemberFields(n) = {}) =>
           /\ LinesBy(n.location) = 1
           /\ Lines(n.location, "missingMember") = 1
           /\ n.dt = typeCreateInvalid
           /\ n.symbol = NullSym

C11_MemberAccess == \A n \in MemberNodes : C11_Member(n)

\* struct S { int a; } s;  s.b  and, in another run,  sp->a
C11_Witness ==
    \E n \in MemberNodes :
        /\ MemberShape(n)
        /\ n.o = "."
        /\ n.r.literal = "b"
        /\ Lines(n.location, "missingMember") = 1
        /\ n.symbol = NullSym

\* C12: when analyzer() has returned a second time on the same tree, every
\* node has the dt and the symbol the first run left, the second run has
\* printed the lines of the first again, and the two counts add up to twice
\* the first.
C12_SecondRunRepeatsFirst ==
    (phase = "analyzed" /\ apc.run = 2) =>
        /\ tree = apc.first.tree
        /\ out = apc.first.out
        /\ apc.first.result + apc.result = 2 * apc.first.result

\* struct S { int a; } s; int h(void) { s->b; } analyzed twice
C12_Witness ==
    /\ phase = "analyzed"
    /\ apc.run = 2
    /\ apc.result = 2
    /\ \E n \in MemberNodes : n.symbol = NullSym /\ n.dt = typeCreateInvalid

\* C13: no error operation waits for standard input: the parser is never
\* inside error()'s getchar with no key to read.
C13_ErrorNeverAwaitsInput ==
    ~(phase = "parsing" /\ pcall.at = "getchar" /\ keys = 0)

\* C14: a Branch, Loop or Iter of a walked body. Its condition is the
\* expression the construct was written with (for a loop: l of a while, r
\* of a do-while; an Empty slot of an Iter is no condition). The condition
\* is typed, one 'expected' line is printed by the construct if and only if
\* the condition's type is no condition type, that line is located at the
\* condition, and the construct prints nothing else.
Constructs ==
    { n \in WalkedNodes : n.class \in {"astBranch", "astLoop", "astIter"} }

ConstructCondition(n) ==
    IF n.class = "astBranch" THEN n.children[1]
    ELSE IF n.class = "astIter" THEN n.children[2]
    ELSE IF n.o = "do" THEN n.r ELSE n.l

ConstructBody(n) ==
    IF n.class = "astLoop" /\ n.o # "do" THEN n.r ELSE n.l

C14_Construct(n) ==
    LET cond == ConstructCondition(n)
        fails == cond.class # "astEmpty" /\ ~typeIsCondition(cond.dt)
    IN /\ cond.class # "astEmpty" => cond.dt # NullType
       /\ Lines(n.location, "expected") = IF fails THEN 1 ELSE 0
       /\ LinesBy(n.location) = Lines(n.location, "expected")
       /\ \A k \in 1..Len(out) :
              out[k].by = n.location => out[k].at = cond.location
       /\ ConstructBody(n).class = "astCode" =>
              \A k \in 1..Len(ConstructBody(n).children) :
                  ConstructBody(n).children[k].dt # NullType

C14_ConditionTested == \A n \in Constructs : C14_Construct(n)

\* C15: a step of an analyzer run changes nothing of the tree but the dt of
\* nodes and the symbol of member-access nodes: class, operator, literal,
\* children, l, r, location and every other symbol binding stay.
RECURSIVE Frame(_)
Frame(Node) ==
    IF Node = NullNode THEN NullNode
    ELSE [Node EXCEPT
            !.dt = NullType,
            !.symbol = IF Node.class = "astBOP" /\ Node.o \in {".", "->"}
                       THEN NullSym ELSE @,
            !.l = Frame(Node.l),
            !.r = Frame(Node.r),
            !.children = [k \in 1..Len(Node.children) |->
                            Frame(Node.children[k])]]

C15_OnlyAnnotations ==
    [][phase = "analyzing" => Frame(tree') = Frame(tree)]_vars

\* sp.a printed a line and bound the node to the field a.
C15_Witness ==
    /\ phase = "analyzed"
    /\ Len(out) = 1
    /\ \E n \in MemberNodes : n.symbol = "S.a" /\ n.dt = IntT /\ n.o = "."

\* The typed binary nodes of the numeric or assignment class.
ArithmeticNodes ==
    { n \in TypedNodes :
        /\ n.class = "astBOP"
        /\ (isNumericBOP(n.o) \/ isAssignmentBOP(n.o)) }

\* The operatorRequires lines the operands of such a node call for: one if
\* the operator is numeric and an operand is not, and one if the operator
\* is an assignment and an operand cannot be assigned.
OperandFaults(n) ==
    (IF isNumericBOP(n.o)
        /\ (~typeIsNumeric(n.l.dt) \/ ~typeIsNumeric(n.r.dt))
     THEN 1 ELSE 0)
    + (IF isAssignmentBOP(n.o)
          /\ (~typeIsAssignment(n.l.dt) \/ ~typeIsAssignment(n.r.dt))
       THEN 1 ELSE 0)

ArithmeticType(n) ==
    IF isAssignmentBOP(n.o)
    THEN typeDeriveFrom(n.r.dt)
    ELSE typeDeriveFromTwo(n.l.dt, n.r.dt)

\* C16 as claimed: dt is Invalid if and only if the operand types are not
\* compatible, and then one typeMismatch line is printed; compatible
\* operands give deriveFrom(R) to an assignment and deriveFromTwo(L, R) to
\* the other operators; the operatorRequires lines are as the operands call
\* for.
C16_InvalidIffIncompatible ==
    \A n \in ArithmeticNodes :
        /\ n.dt = typeCreateInvalid <=> ~typeIsCompatible(n.l.dt, n.r.dt)
        /\ ~typeIsCompatible(n.l.dt, n.r.dt) =>
               Lines(n.location, "typeMismatch") = 1
        /\ typeIsCompatible(n.l.dt, n.r.dt) => n.dt = ArithmeticType(n)
        /\ Lines(n.location, "operatorRequires") = OperandFaults(n)

\* C16 as amended: operand types that are not compatible give dt Invalid
\* and exactly one typeMismatch line; compatible ones give no typeMismatch
\* line and the derived type, deriveFrom(R) for an assignment and
\* deriveFromTwo(L, R) otherwise, which is itself Invalid when derived from
\* an Invalid operand; the operatorRequires lines are as the operands call
\* for, and the node prints no other line.
C16_DerivedOrMismatch ==
    \A n \in ArithmeticNodes :
        /\ ~typeIsCompatible(n.l.dt, n.r.dt) =>
               /\ n.dt = typeCreateInvalid
               /\ Lines(n.location, "typeMismatch") = 1
        /\ typeIsCompatible(n.l.dt, n.r.dt) =>
               /\ n.dt = ArithmeticType(n)
               /\ Lines(n.location, "typeMismatch") = 0
        /\ Lines(n.location, "operatorRequires") = OperandFaults(n)
        /\ LinesBy(n.location) =
               Lines(n.location, "typeMismatch")
               + Lines(n.location, "operatorRequires")

\* x = <undefined identifier>: compatible, nothing printed, dt Invalid.
C16_Witness ==
    \E n \in ArithmeticNodes :
        /\ n.o = "="
        /\ n.l.dt = IntT
        /\ n.r.dt = typeCreateInvalid
        /\ n.dt = typeCreateInvalid
        /\ LinesBy(n.location) = 0

(***************************************************************************)
(* C17: the layout of records                                              *)
(***************************************************************************)

\* The record after its layout, and what it was laid out for.
LaidOut(tag) == phase = "emitted" /\ decl.tag = tag
fields == decl.symbol.children
wordsize == decl.ctx.arch.wordsize

\* n bytes rounded up to a whole number of words.
RoundedUp(n) == ((n + wordsize - 1) \div wordsize) * wordsize

\* The words a field takes in a struct: its size rounded up, and one word
\* for a field of no size.
WordsTaken(n) == IF n = 0 THEN wordsize ELSE RoundedUp(n)

RECURSIVE SumOver(_, _, _)
\* The sum of Op(dtSize) over the fields from the k-th on.
SumOver(Op(_), fs, k) ==
    IF k > Len(fs) THEN 0 ELSE Op(fs[k].dtSize) + SumOver(Op, fs, k + 1)

\* What the claim says of the fields' places in a struct: offsets on word
\* boundaries, growing in declaration order, byte ranges apart from one
\* another and inside the struct.
StructPlacement ==
    /\ \A i \in DOMAIN fields : fields[i].offset % wordsize = 0
    /\ \A i, j \in DOMAIN fields :
           i < j => fields[i].offset < fields[j].offset
    /\ \A i, j \in DOMAIN fields :
           i # j =>
               \/ fields[i].offset + fields[i].dtSize <= fields[j].offset
               \/ fields[j].offset + fields[j].dtSize <= fields[i].offset
    /\ \A i \in DOMAIN fields :
           /\ 0 <= fields[i].offset
           /\ fields[i].offset + fields[i].dtSize <= decl.symbol.size

\* What the claim says of a union: every field at 0, the size the largest
\* field size (0 for a union of no fields).
UnionLayout ==
    /\ \A i \in DOMAIN fields : fields[i].offset = 0
    /\ \A i \in DOMAIN fields : fields[i].dtSize <= decl.symbol.size
    /\ \/ \E i \in DOMAIN fields : fields[i].dtSize = decl.symbol.size
       \/ fields = <<>> /\ decl.symbol.size = 0

====
